---- MODULE Spec2Model ----
(***************************************************************************)
(* Model of the tile rendering engine of reearth-cesium-mvt-imagery-       *)
(* provider: the per-layer worker pool registry (workerPool.ts, the keyed  *)
(* version in src/unnamed/part_000) and the Renderer (renderer.ts,         *)
(* src/unnamed/part_001): its tile cache, _renderPolygon, the loop of      *)
(* _renderCanvas over a layer's features, and the data tile and URL worked *)
(* out for a requested tile.                                               *)
(*                                                                         *)
(* The pools are Pool objects of the "threads" package.  What the registry *)
(* relies on is modelled at the call sites: Pool(spawn, {size}) creates    *)
(* `size` workers; pool.queue(task) throws once terminate() has been       *)
(* called, else pushes the task on taskQueue and calls scheduleWork(),     *)
(* which shifts the head of taskQueue onto an idle worker; a finished or   *)
(* failed task frees its worker and calls scheduleWork() again unless the  *)
(* pool is closing; terminate(true) sets isClosing at once, rejects the    *)
(* completion promise of every unfinished task, and resolves only after    *)
(* the workers have been terminated.                                       *)
(***************************************************************************)
EXTENDS Integers, Sequences, FiniteSets, TLC

\* ------------------------------------------------------------------ bounds

\* layer ids used as pool keys
Keys == {"a", "b"}

\* no layer id (the history's initial value)
NoKey == "none"

\* tasks submitted in one behaviour
MaxTasks == 2

\* pools created in one behaviour
MaxPools == 2

\* destroy() calls whose terminate() promise is pending at the same time
MaxPendingDestroy == 2

\* largest navigator.hardwareConcurrency the host reports
MaxHC == 5

\* the values tried for navigator.hardwareConcurrency: none, one, many
HCValues == {0, 1, MaxHC}

\* largest maxQueuedJobs argument tried with canQueue
MaxJobs == 3

\* tile URLs requested from one Renderer
Urls == {"u1", "u2"}

\* the empty or undefined URL
EmptyUrl == ""

\* _cachedTile calls made on the Renderer in one behaviour
MaxCalls == 3

\* rings of one polygon
MaxRings == 3

\* vertex counts tried for a ring (loadGeometry gives every ring a vertex)
RingSizes == {1, 2700, 2701, 5400, 5401}

\* features of the layer drawn by one _renderCanvas call
MaxFeatures == 2

\* the geometries tried for a feature: one small ring or point sequence, and
\* two rings that total more than MAX_VERTICES_PER_CALL
Geometries == {<<4>>, <<2700, 2701>>}

\* the tiles tried as requestedTile of a render call
LayerTiles == {[level |-> 0, x |-> 0, y |-> 0], [level |-> 3, x |-> 5, y |-> 2]}

\* the maximumLevel of the render calls whose layer is drawn: the first of
\* LayerTiles is within it, the second is over-zoomed
LayerMaxLevel == 2

\* the display tiles tried for the URL: levels below, at and above the
\* levels tried as maximum, columns and rows inside the level's grid
TileLevels == {0, 3, 15, 16, 20}
TileColumns == {0, 5, 1000}
Tiles ==
  {t \in [level : TileLevels, x : TileColumns, y : TileColumns] :
     t.x < 2 ^ t.level /\ t.y < 2 ^ t.level}

\* the values tried for maximumLevel (24 is the provider's default)
MaxLevels == {10, 15, 24}

\* the URL templates tried, cut into their placeholders and the text between
\* them; the second is the first with its braces percent-encoded
Templates ==
  {<<"https://example.com/", "{z}", "/", "{x}", "/", "{y}", ".mvt">>,
   <<"https://example.com/", "%7Bz%7D", "/", "%7Bx%7D", "/", "%7By%7D", ".mvt">>,
   <<"https://x/", "{z}", "/", "{x}", "/", "{y}", ".pbf?key=a%2Bb">>}

\* features of the first layer of the tile that is picked
MaxPickFeatures == 2

\* pickFeatures calls made on one provider
MaxPicks == 2

\* the features tried for picking: a polygon that is hit, one that is missed,
\* one that is hit and declined by onSelectFeature, and a line and a point
\* that isFeatureClicked would accept
PickKinds ==
  {[type |-> "Polygon", clicked |-> TRUE, declined |-> FALSE],
   [type |-> "Polygon", clicked |-> FALSE, declined |-> FALSE],
   [type |-> "Polygon", clicked |-> TRUE, declined |-> TRUE],
   [type |-> "LineString", clicked |-> TRUE, declined |-> FALSE],
   [type |-> "Point", clicked |-> TRUE, declined |-> FALSE]}

\* the layerNames tried: one layer, two layers in both orders, a layer the
\* tile does not have, the same layer twice
LayerNameLists ==
  {<<"l1">>, <<"l1", "l2">>, <<"l2", "l1">>, <<"l3", "l1">>, <<"l1", "l1">>}

\* requestImage calls made on two providers together
MaxRequests == 3

\* the layers providers are made with: two contents under the id "a", one
\* under "b"
Layers == {[id |-> "a", rev |-> 1], [id |-> "a", rev |-> 2], [id |-> "b", rev |-> 1]}

\* renderTile tasks given to one worker thread
MaxRenders == 2

\* render calls made on one Renderer
MaxPasses == 2

\* the pick options tried: none given, and a radius and a width given
PickOptions ==
  {[pickPointRadius |-> <<>>, pickLineWidth |-> <<>>],
   [pickPointRadius |-> <<10>>, pickLineWidth |-> <<5>>]}

\* ---------------------------------------------------------------- constants

\* tile.level <= 15 ? String(tile.level) : String(15)
ClampLevel == 15

\* const MAX_VERTICES_PER_CALL = 5400
MAX_VERTICES_PER_CALL == 5400

\* Math.ceil(navigator.hardwareConcurrency / 4)
PoolSizeDivisor == 4

\* static maximumTasks = 50
maximumTasks == 50

\* static maximumTasksPerImagery = 6
maximumTasksPerImagery == 6

VARIABLES
  hc,             \* navigator.hardwareConcurrency
  workerPools,    \* the registry: sequence of pool ids, in push order
  pool,           \* every Pool object ever created, by id (registered or not)
  task,           \* every task ever submitted, by id
  pendingDestroy, \* destroy() calls suspended at `await workerPool.terminate(true)`
  last,           \* the last call made on the module (history)
  tileCaches,     \* Renderer._tileCaches: url -> decoded tile
  call,           \* the _cachedTile calls of the Renderer, by id
  decodes,        \* number of tiles decoded so far (identity of the next tile)
  warm,           \* history: url -> tile a _cachedTile call returned, no clearCache since
  coordinates,    \* _renderPolygon's coordinates: the rings, each by its vertex count
  shouldRenderLine, \* _renderPolygon's shouldRenderLine
  calls,          \* the calls made on the drawing context, in order
  surface,        \* the kind of drawing context
  context,        \* the context's paint state
  requestedTile,  \* the tile _renderCanvas draws
  index,          \* number of features of the layer handled so far
  running,        \* the loop over the layer's features has not been left
  feature,        \* history: the feature handled last
  prior,          \* history: the paint state before that feature
  diagnostics,    \* console.error messages of the feature handled last
  styled,         \* history: the tile evalStyle was called with for that feature
  urlTemplate,    \* Renderer._urlTemplate
  maximumLevel,   \* the maximumLevel passed to render
  built,          \* the data tile and the URL worked out for requestedTile
  served,         \* the tile the server holds: layer name -> features
  layerNames,     \* the provider's _layerNames
  pickOptions,    \* the provider's pickPointRadius and pickLineWidth options
  pick,           \* the pickFeatures call made last on the provider
  picksDecoded,   \* history: the URLs earlier picks fetched and decoded
  renders,        \* the renderTile tasks one worker thread was given, in order
  providers,      \* the options of the MVTImageryProvider instances
  taskCount,      \* taskCount of every provider
  layerUsed,      \* the module's layerUsed
  requests,       \* the number of requestImage calls made
  requestLimit    \* the number of requestImage calls the host makes at most

poolVars == <<hc, workerPools, pool, task, pendingDestroy, last>>
cacheVars == <<tileCaches, call, decodes, warm>>
polygonVars == <<coordinates, shouldRenderLine, calls>>
layerVars ==
  <<surface, context, requestedTile, index, running, feature, prior, diagnostics, styled>>
tileVars == <<urlTemplate, maximumLevel, built>>
pickVars == <<served, layerNames, pickOptions, pick, picksDecoded>>
workerVars == <<renders>>
providerVars == <<providers, taskCount, layerUsed, requests, requestLimit>>
hostVars == <<workerVars, providerVars>>
renderVars == <<polygonVars, layerVars, tileVars, pickVars, hostVars>>
vars == <<hc, workerPools, pool, task, pendingDestroy, last, tileCaches, call, decodes, warm,
          coordinates, shouldRenderLine, calls,
          surface, context, requestedTile, index, running, feature, prior, diagnostics,
          styled, urlTemplate, maximumLevel, built,
          served, layerNames, pickOptions, pick, picksDecoded,
          renders, providers, taskCount, layerUsed, requests, requestLimit>>

\* -------------------------------------------------------------- sequences

\* Array.prototype.splice(index, 1) for a 1-based index inside or past the end
splice(s, i) ==
  IF i \in 1..Len(s) THEN SubSeq(s, 1, i - 1) \o SubSeq(s, i + 1, Len(s)) ELSE s

Range(s) == {s[i] : i \in DOMAIN s}

\* ------------------------------------------------------------- the registry

\* workerPools.findIndex(pool => pool.layerId === layerId), 0 for JavaScript's -1
findIndexIn(reg, pools, layerId) ==
  IF \E i \in DOMAIN reg : pools[reg[i]].layerId = layerId
  THEN CHOOSE i \in DOMAIN reg :
         /\ pools[reg[i]].layerId = layerId
         /\ \A j \in DOMAIN reg : pools[reg[j]].layerId = layerId => i <= j
  ELSE 0

findIndex(layerId) == findIndexIn(workerPools, pool, layerId)

\* workerPools.find(...): the pool id, 0 for undefined
find(layerId) ==
  LET i == findIndex(layerId) IN IF i = 0 THEN 0 ELSE workerPools[i]

\* size: Math.ceil(navigator.hardwareConcurrency / 4)
poolSize(h) == (h + PoolSizeDivisor - 1) \div PoolSizeDivisor

NewPool(layerId) ==
  [layerId |-> layerId, size |-> poolSize(hc), taskQueue |-> <<>>,
   running |-> {}, isClosing |-> FALSE]

\* faulty variant: get that creates and pushes a pool without looking for one
getAlways(layerId) ==
  [reg |-> Append(workerPools, Len(pool) + 1),
   pools |-> Append(pool, NewPool(layerId)),
   pid |-> Len(pool) + 1]

\* get(layerId): the registered pool of layerId, created and pushed when there
\* is none. Gives the registry, the pools and the id of the pool returned.
get(layerId) ==
  IF find(layerId) = 0
  THEN [reg |-> Append(workerPools, Len(pool) + 1),
        pools |-> Append(pool, NewPool(layerId)),
        pid |-> Len(pool) + 1]
  ELSE [reg |-> workerPools, pools |-> pool, pid |-> find(layerId)]

\* faulty variant: canQueue comparing with <= instead of <
canQueueLeq(layerId, maxQueuedJobs) ==
  \/ find(layerId) = 0
  \/ Len(pool[find(layerId)].taskQueue) <= maxQueuedJobs

\* faulty variant: canQueue of the single-pool module: the layerId is not looked at
canQueueOnePool(layerId, maxQueuedJobs) ==
  \/ workerPools = <<>>
  \/ Len(pool[workerPools[1]].taskQueue) < maxQueuedJobs

\* canQueue(layerId, maxQueuedJobs)
canQueue(layerId, maxQueuedJobs) ==
  LET workerPool == find(layerId)
  IN \/ workerPool = 0
     \/ Len(pool[workerPool].taskQueue) < maxQueuedJobs

\* --------------------------------------------------- Pool of "threads"

\* Pool.findIdlingWorker(): a worker running fewer tasks than `concurrency` (1)
findIdlingWorker(pl) == Cardinality(pl.running) < pl.size

\* Pool.scheduleWork(): hand the head of taskQueue to an idle worker
scheduleWork(pl) ==
  IF findIdlingWorker(pl) /\ pl.taskQueue # <<>>
  THEN [pl EXCEPT !.running = @ \cup {Head(pl.taskQueue)}, !.taskQueue = Tail(@)]
  ELSE pl

\* Pool.queue(task) on a pool that is not closing: push, then scheduleWork()
poolQueue(pl, t) == scheduleWork([pl EXCEPT !.taskQueue = Append(@, t)])

\* a worker settles task t: the worker is freed and, unless the pool is
\* closing, scheduleWork() runs
poolSettle(pl, t) ==
  LET freed == [pl EXCEPT !.running = @ \ {t}]
  IN IF pl.isClosing THEN freed ELSE scheduleWork(freed)

\* A destroy call joins the suspended ones. Any of them may resume next, so
\* their order carries nothing and they are kept sorted by index.
suspend(ds, d) ==
  LET before == Cardinality({j \in DOMAIN ds : ds[j].index <= d.index})
  IN SubSeq(ds, 1, before) \o <<d>> \o SubSeq(ds, before + 1, Len(ds))

\* the tasks of pool p whose completion promise is still pending
Unfinished(p) == {t \in DOMAIN task : task[t].pool = p /\ task[t].st = "pending"}

NoCall == [op |-> "init", key |-> NoKey, pid |-> 0, t |-> 0, ok |-> TRUE]

\* ------------------------------------------------------------------- Init

InitPools ==
  /\ workerPools = <<>>
  /\ pool = <<>>
  /\ task = <<>>
  /\ pendingDestroy = <<>>
  /\ last = NoCall

InitCache ==
  /\ tileCaches = <<>>
  /\ call = <<>>
  /\ decodes = 0
  /\ warm = <<>>

\* an optional value: <<>> for undefined, <<v>> for v
Optional(S) == {<<>>} \cup {<<v>> : v \in S}

\* a ?? b
orElse(a, b) == IF a = <<>> THEN b ELSE a[1]

\* what evalStyle can return for a feature that is drawn: each attribute is
\* given or not
Styles ==
  [fillStyle : Optional({"red"}), strokeStyle : Optional({"blue"}),
   lineWidth : Optional({0, 3}), lineJoin : Optional({"round"})]

\* VectorTileFeature.types
GeometryTypes == {"Unknown", "Point", "LineString", "Polygon"}

\* a feature of the layer: its type, its geometry (the vertex count of each
\* ring or point sequence), whether its bbox lies outside the padded tile,
\* and what evalStyle returns for it (evalStyle is not called for a feature
\* that is culled)
Features ==
  {f \in [type : GeometryTypes, geometry : Geometries, culled : BOOLEAN,
          style : Optional(Styles)] : f.culled => f.style = <<>>}

\* the drawing contexts: a 2D canvas context ignores a lineWidth that is not
\* positive; a plain context keeps whatever is assigned
Surfaces == {"canvas", "plain"}

\* the paint state _renderCanvas sets before it draws; lineJoin is the
\* context's initial "miter"
LayerPaint ==
  [fillStyle |-> "black", strokeStyle |-> "black", lineWidth |-> 1, lineJoin |-> "miter"]

\* history: no feature handled yet
NoFeature ==
  [type |-> "Unknown", geometry |-> <<>>, culled |-> TRUE, style |-> <<>>]

\* no _renderPolygon call of its own is made
InitNoPolygon ==
  /\ coordinates = <<>>
  /\ shouldRenderLine = FALSE

\* no layer is being drawn
InitNoLayer ==
  /\ surface = "canvas"
  /\ context = LayerPaint
  /\ requestedTile = [level |-> 0, x |-> 0, y |-> 0]
  /\ index = 0
  /\ running = FALSE
  /\ feature = NoFeature
  /\ prior = LayerPaint
  /\ diagnostics = <<>>
  /\ styled = <<>>

\* no URL has been built
NoUrl == [op |-> "none", dataTile |-> [level |-> 0, x |-> 0, y |-> 0], ps |-> 1, url |-> <<>>]

\* no tile is being worked on
InitNoTile ==
  /\ urlTemplate = <<>>
  /\ maximumLevel = 0
  /\ built = NoUrl

\* no pickFeatures call made yet
NoPick ==
  [n |-> 0, url |-> EmptyUrl, pc |-> "none", tile |-> <<>>, pf |-> <<>>, order |-> <<>>,
   result |-> <<>>, fetches |-> 0, resp |-> "none"]

\* nothing is picked
InitNoPick ==
  /\ served = <<>>
  /\ layerNames = <<>>
  /\ pickOptions = [pickPointRadius |-> <<>>, pickLineWidth |-> <<>>]
  /\ pick = NoPick
  /\ picksDecoded = {}

\* no worker thread and no provider
InitNoHost ==
  /\ renders = <<>>
  /\ providers = <<>>
  /\ taskCount = <<>>
  /\ layerUsed = <<>>
  /\ requests = 0
  /\ requestLimit = 0

\* no drawing is going on
InitNoRender ==
  /\ InitNoPolygon
  /\ InitNoLayer
  /\ InitNoTile
  /\ InitNoPick
  /\ InitNoHost
  /\ calls = <<>>

Init ==
  /\ hc \in HCValues
  /\ InitPools
  /\ InitCache
  /\ InitNoRender

\* ---------------------------------------------------------------- actions

\* queue(task, layerId): get(layerId).queue(thread => task(thread, layerId)).
\* Pool.queue throws when the pool found is closing; get() has run by then.
Queue(layerId) ==
  /\ Len(task) < MaxTasks
  /\ find(layerId) = 0 => Len(pool) < MaxPools
  /\ LET g == get(layerId)
         t == Len(task) + 1
         pl == g.pools[g.pid]
     IN /\ workerPools' = g.reg
        /\ IF pl.isClosing
           THEN /\ pool' = g.pools
                /\ task' = Append(task, [layerId |-> layerId, pool |-> 0, st |-> "refused"])
                /\ last' = [op |-> "queue", key |-> layerId, pid |-> g.pid, t |-> t, ok |-> FALSE]
           ELSE /\ pool' = [g.pools EXCEPT ![g.pid] = poolQueue(pl, t)]
                /\ task' = Append(task, [layerId |-> layerId, pool |-> g.pid, st |-> "pending"])
                /\ last' = [op |-> "queue", key |-> layerId, pid |-> g.pid, t |-> t, ok |-> TRUE]
  /\ UNCHANGED <<hc, pendingDestroy, cacheVars, renderVars>>

\* destroy(layerId) up to its await: findIndex; if a pool is found,
\* terminate(true) marks it closing and rejects its unfinished tasks.
destroyCall(layerId) ==
  LET i == findIndex(layerId)
      p == workerPools[i]
  IN IF i = 0
     THEN /\ last' = [op |-> "destroy", key |-> layerId, pid |-> 0, t |-> 0, ok |-> TRUE]
          /\ UNCHANGED <<pool, task, pendingDestroy>>
     ELSE /\ Len(pendingDestroy) < MaxPendingDestroy
          /\ pool' = [pool EXCEPT ![p].isClosing = TRUE]
          /\ task' = [t \in DOMAIN task |->
                        IF t \in Unfinished(p)
                        THEN [task[t] EXCEPT !.st = "terminated"] ELSE task[t]]
          /\ pendingDestroy' = suspend(pendingDestroy, [index |-> i, pid |-> p])
          /\ last' = [op |-> "destroy", key |-> layerId, pid |-> p, t |-> 0, ok |-> TRUE]

DestroyCall(layerId) ==
  /\ destroyCall(layerId)
  /\ UNCHANGED <<hc, workerPools, cacheVars, renderVars>>

\* destroy(layerId) after its await: workerPools.splice(workerPoolIndex, 1)
destroyResume(d) == workerPools' = splice(workerPools, pendingDestroy[d].index)

DestroyResume(d) ==
  /\ d \in DOMAIN pendingDestroy
  /\ destroyResume(d)
  /\ pendingDestroy' = splice(pendingDestroy, d)
  /\ last' = [op |-> "destroyed", key |-> pool[pendingDestroy[d].pid].layerId,
              pid |-> pendingDestroy[d].pid, t |-> 0, ok |-> TRUE]
  /\ UNCHANGED <<hc, pool, task, cacheVars, renderVars>>

\* faulty variant: a failed task takes its pool out of the registry
settleTaskDropsPool(t, outcome) ==
  /\ task' = [task EXCEPT ![t].st = outcome]
  /\ pool' = [pool EXCEPT ![task[t].pool] = poolSettle(@, t)]
  /\ workerPools' = IF outcome = "failed"
                    THEN splice(workerPools, findIndex(task[t].layerId))
                    ELSE workerPools

\* what the module does when the task function settles: renderWorker only
\* awaits the task, so the outcome goes to the promise of this one call
settleTask(t, outcome) ==
  /\ task' = [task EXCEPT ![t].st = outcome]
  /\ pool' = [pool EXCEPT ![task[t].pool] = poolSettle(@, t)]
  /\ UNCHANGED workerPools

\* a worker finishes task.renderTile(...) of a running task
TaskComplete(t) ==
  /\ t \in DOMAIN task
  /\ task[t].st = "pending"
  /\ t \in pool[task[t].pool].running
  /\ settleTask(t, "fulfilled")
  /\ last' = [op |-> "complete", key |-> task[t].layerId, pid |-> task[t].pool, t |-> t,
              ok |-> TRUE]
  /\ UNCHANGED <<hc, pendingDestroy, cacheVars, renderVars>>

\* task.renderTile(...) throws, or the worker running it fails
TaskFail(t) ==
  /\ t \in DOMAIN task
  /\ task[t].st = "pending"
  /\ t \in pool[task[t].pool].running
  /\ settleTask(t, "failed")
  /\ last' = [op |-> "fail", key |-> task[t].layerId, pid |-> task[t].pool, t |-> t,
              ok |-> FALSE]
  /\ UNCHANGED <<hc, pendingDestroy, cacheVars, renderVars>>

Next ==
  \/ \E k \in Keys : Queue(k)
  \/ \E k \in Keys : DestroyCall(k)
  \/ \E d \in 1..MaxPendingDestroy : DestroyResume(d)
  \/ \E t \in 1..MaxTasks : TaskComplete(t)
  \/ \E t \in 1..MaxTasks : TaskFail(t)

Spec == Init /\ [][Next]_vars

\* ----------------------------------------------------------- the tile cache

\* What fetch(url) can give: a rejected fetch, or a response (of any status;
\* the status is never read) whose body is a tile, is empty, or is not a tile
Responses == {"networkError", "tile", "emptyBody", "malformed", "httpErrorEmpty", "httpErrorPage"}

\* fetchResourceAsArrayBuffer(url) for a non-empty url:
\* fetch(url).then(r => r.arrayBuffer()).catch(() => {})
fetchResourceAsArrayBuffer(resp) ==
  CASE resp = "networkError" -> "undefined"
    [] resp = "tile" -> "tileBytes"
    [] resp \in {"emptyBody", "httpErrorEmpty"} -> "noBytes"
    [] OTHER -> "otherBytes"

\* defaultParseTile(url): undefined when there is no buffer, else parseMVT(ab),
\* which yields a VectorTile ("decoded"; one without layers for an empty
\* buffer) or throws on bytes that are no tile
defaultParseTile(resp) ==
  LET ab == fetchResourceAsArrayBuffer(resp)
  IN CASE ab = "undefined" -> "undefined"
       [] ab = "otherBytes" -> "throws"
       [] OTHER -> "decoded"

\* tileToCacheable(v): undefined for undefined, else a new object
tileToCacheable(v) == IF v = "undefined" THEN "undefined" ELSE "cacheable"

\* this._tileCaches.get(currentUrl): the tile id, 0 for undefined
cacheGet(url) == IF url \in DOMAIN tileCaches THEN tileCaches[url] ELSE 0

\* faulty variant: _cachedTile that never looks the URL up
cachedTileNoLookup(url) ==
  IF url = EmptyUrl
  THEN [pc |-> "done", result |-> 0, fetches |-> 0]
  ELSE [pc |-> "parsing", result |-> 0, fetches |-> 1]

\* faulty variant: _cachedTile without its `if (!currentUrl) return;`
cachedTileNoEmptyCheck(url) ==
  IF cacheGet(url) # 0
  THEN [pc |-> "done", result |-> cacheGet(url), fetches |-> 0]
  ELSE [pc |-> "parsing", result |-> 0, fetches |-> 1]

\* _cachedTile(currentUrl) of a Renderer whose _tileCaches is caches, up to
\* its await: the empty URL and the cache hit return at once, a miss starts
\* _parseTile(currentUrl)
cachedTileOn(caches, url) ==
  IF url = EmptyUrl
  THEN [pc |-> "done", result |-> 0, fetches |-> 0]
  ELSE IF url \in DOMAIN caches /\ caches[url] # 0
       THEN [pc |-> "done", result |-> caches[url], fetches |-> 0]
       ELSE [pc |-> "parsing", result |-> 0, fetches |-> 1]

\* _cachedTile(currentUrl) of the one Renderer of a worker
cachedTile(url) == cachedTileOn(tileCaches, url)

\* history: the call has not been answered by fetch (yet, or at all)
NoResponse == "none"

WarmTile(url) == IF url \in DOMAIN warm THEN warm[url] ELSE 0

CachedTileCall(url) ==
  /\ Len(call) < MaxCalls
  /\ call' = Append(call, [url |-> url, expect |-> WarmTile(url), resp |-> NoResponse]
                            @@ cachedTile(url))
  /\ UNCHANGED <<tileCaches, decodes, warm, poolVars, renderVars>>

\* _cachedTile after its await: tileToCacheable of what _parseTile gave;
\* a tile is stored under the URL and returned, a throw rejects the call
CachedTileResume(c, resp) ==
  /\ c \in DOMAIN call
  /\ call[c].pc = "parsing"
  /\ LET parsed == defaultParseTile(resp)
         url == call[c].url
     IN IF parsed = "throws"
        THEN /\ call' = [call EXCEPT ![c].pc = "threw", ![c].resp = resp]
             /\ UNCHANGED <<tileCaches, decodes, warm>>
        ELSE IF tileToCacheable(parsed) = "undefined"
        THEN /\ call' = [call EXCEPT ![c].pc = "done", ![c].resp = resp]
             /\ UNCHANGED <<tileCaches, decodes, warm>>
        ELSE /\ decodes' = decodes + 1
             /\ tileCaches' = (url :> decodes + 1) @@ tileCaches
             /\ warm' = (url :> decodes + 1) @@ warm
             /\ call' = [call EXCEPT ![c].pc = "done", ![c].result = decodes + 1,
                                      ![c].resp = resp]
  /\ UNCHANGED <<poolVars, renderVars>>

\* clearCache(): this._tileCaches.clear()
ClearCache ==
  /\ tileCaches # <<>>
  /\ tileCaches' = <<>>
  /\ warm' = <<>>
  /\ UNCHANGED <<call, decodes, poolVars, renderVars>>

NextCache ==
  \/ \E u \in Urls \cup {EmptyUrl} : CachedTileCall(u)
  \/ \E c \in 1..MaxCalls, r \in Responses : CachedTileResume(c, r)
  \/ ClearCache

\* one Renderer and its cache, on a host whose pools are never used
InitRenderer ==
  /\ hc = 1
  /\ InitPools
  /\ InitCache
  /\ InitNoRender

SpecCache == InitRenderer /\ [][NextCache]_vars

\* ------------------------------------------------------------ _renderPolygon

\* A call on the drawing context.  A ring's moveTo and lineTo calls are kept
\* as one entry holding the number of its vertices.
Call(op) == [op |-> op, n |-> 0]
RingCall(n) == [op |-> "ring", n |-> n]

\* const draw = () => { context.fill(); if (shouldRenderLine) context.stroke(); }
draw(renderLine) ==
  IF renderLine THEN <<Call("fill"), Call("stroke")>> ELSE <<Call("fill")>>

\* faulty variant: the ceiling is reached by equality already
exceedsCeilingGeq(verticesLength, n) == verticesLength + n >= MAX_VERTICES_PER_CALL

\* faulty variant: the ring about to be added is not counted
exceedsCeilingBefore(verticesLength, n) == verticesLength > MAX_VERTICES_PER_CALL

\* verticesLength + v.length > MAX_VERTICES_PER_CALL
exceedsCeiling(verticesLength, n) == verticesLength + n > MAX_VERTICES_PER_CALL

\* the loop over the rings from ring i2 on, and the draw() after it
RECURSIVE polygonRings(_, _, _, _)
polygonRings(rings, i2, verticesLength, renderLine) ==
  IF i2 > Len(rings)
  THEN IF verticesLength > 0 THEN draw(renderLine) ELSE <<>>
  ELSE LET v == rings[i2]
           over == exceedsCeiling(verticesLength, v)
           flushed == IF over THEN draw(renderLine) \o <<Call("beginPath")>> ELSE <<>>
           counted == IF over THEN 0 ELSE verticesLength
       IN flushed \o <<RingCall(v)>> \o polygonRings(rings, i2 + 1, counted + v, renderLine)

\* _renderPolygon(context, coordinates, shouldRenderLine)
renderPolygon(rings, renderLine) ==
  <<Call("beginPath")>> \o polygonRings(rings, 1, 0, renderLine)

\* the polygons tried: up to MaxRings rings
Polygons == UNION {[1..n -> RingSizes] : n \in 0..MaxRings}

\* one _renderPolygon call on a fresh context
RenderPolygon ==
  /\ calls = <<>>
  /\ calls' = renderPolygon(coordinates, shouldRenderLine)
  /\ UNCHANGED <<coordinates, shouldRenderLine, layerVars, tileVars, pickVars, poolVars,
                 cacheVars, hostVars>>

NextPolygon == RenderPolygon

InitPolygon ==
  /\ hc = 1
  /\ InitPools
  /\ InitCache
  /\ coordinates \in Polygons
  /\ shouldRenderLine \in BOOLEAN
  /\ calls = <<>>
  /\ InitNoLayer
  /\ InitNoTile
  /\ InitNoPick
  /\ InitNoHost

SpecPolygon == InitPolygon /\ [][NextPolygon]_vars

\* ------------------------------------------------- _renderCanvas: the layer

\* context.lineWidth = w
setLineWidth(ctx, w) ==
  IF surface = "canvas" /\ w <= 0 THEN ctx ELSE [ctx EXCEPT !.lineWidth = w]

\* context.fillStyle = style.fillStyle ?? context.fillStyle, and the same for
\* strokeStyle, lineWidth and lineJoin
applyStyle(ctx, style) ==
  setLineWidth([ctx EXCEPT !.fillStyle = orElse(style.fillStyle, ctx.fillStyle),
                           !.strokeStyle = orElse(style.strokeStyle, ctx.strokeStyle),
                           !.lineJoin = orElse(style.lineJoin, ctx.lineJoin)],
               orElse(style.lineWidth, ctx.lineWidth))

\* faulty variant: the line is drawn whatever the style's width
lineWanted(style) == TRUE

\* (style.lineWidth ?? 1) > 0
lineEnabled(style) == orElse(style.lineWidth, 1) > 0

\* _renderPoint: a beginPath, then per point sequence beginPath, arc of
\* radius context.lineWidth, fill
RECURSIVE pointArcs(_, _)
pointArcs(n, radius) ==
  IF n = 0 THEN <<>>
  ELSE <<Call("beginPath"), [op |-> "arc", n |-> radius], Call("fill")>>
       \o pointArcs(n - 1, radius)

renderPoint(geometry, ctx) ==
  <<Call("beginPath")>> \o pointArcs(Len(geometry), ctx.lineWidth)

\* _renderLineString: one path of all the sequences, stroked once
renderLineString(geometry) ==
  <<Call("beginPath")>> \o [k \in DOMAIN geometry |-> RingCall(geometry[k])]
  \o <<Call("stroke")>>

\* what one feature leaves behind
Drawn(ctx, cs, ds, goesOn) ==
  [context |-> ctx, calls |-> cs, diagnostics |-> ds, running |-> goesOn]

\* faulty variant: a feature without style is given the default paint
skipFeatureRepaints(ctx) ==
  Drawn(setLineWidth([ctx EXCEPT !.fillStyle = "black", !.strokeStyle = "black"], 1),
        <<>>, <<>>, TRUE)

\* `continue`: the feature is left out, the loop goes on
skipFeature(ctx) == Drawn(ctx, <<>>, <<>>, TRUE)

\* faulty variant: an unexpected geometry type is thrown, not logged
unexpectedTypeThrows(ctx, f) == Drawn(ctx, <<>>, <<>>, FALSE)

\* console.error(`Unexpected geometry type: ${feature.type} in region map on
\* tile ${[level, x, y].join("/")}`)
unexpectedType(ctx, f) ==
  Drawn(ctx, <<>>, <<[type |-> f.type, tile |-> requestedTile]>>, TRUE)

\* one turn of the loop over the layer's features
drawFeature(ctx, f) ==
  IF f.culled \/ f.style = <<>>
  THEN skipFeature(ctx)
  ELSE LET style == f.style[1]
           painted == applyStyle(ctx, style)
       IN CASE f.type = "Polygon" ->
                 Drawn(painted, renderPolygon(f.geometry, lineEnabled(style)), <<>>, TRUE)
            [] f.type = "Point" ->
                 Drawn(painted, renderPoint(f.geometry, painted), <<>>, TRUE)
            [] f.type = "LineString" ->
                 Drawn(painted, renderLineString(f.geometry), <<>>, TRUE)
            [] OTHER -> unexpectedType(painted, f)

\* the tile in evalStyle(feature, requestedTile, currentLayer)
evalStyleTile == requestedTile

DrawFeature(f) ==
  /\ running
  /\ index < MaxFeatures
  /\ LET d == drawFeature(context, f)
     IN /\ context' = d.context
        /\ calls' = d.calls
        /\ diagnostics' = d.diagnostics
        /\ running' = d.running
  /\ index' = index + 1
  /\ feature' = f
  /\ prior' = context
  /\ styled' = IF f.culled THEN <<>> ELSE <<evalStyleTile>>
  /\ UNCHANGED <<surface, requestedTile, coordinates, shouldRenderLine, tileVars, pickVars,
                 poolVars, cacheVars, hostVars>>

\* the loop is over: context.restore() brings back the paint state saved
\* before the first feature
EndLayer ==
  /\ running
  /\ running' = FALSE
  /\ context' = LayerPaint
  /\ UNCHANGED <<surface, requestedTile, index, feature, prior, diagnostics, styled, calls,
                 coordinates, shouldRenderLine, tileVars, pickVars, poolVars,
                 cacheVars, hostVars>>

NextLayer ==
  \/ \E f \in Features : DrawFeature(f)
  \/ EndLayer

\* _renderCanvas at the loop over a layer's features: black fill and stroke,
\* width 1, nothing drawn yet
InitLayer ==
  /\ hc = 1
  /\ InitPools
  /\ InitCache
  /\ InitNoPolygon
  /\ surface \in Surfaces
  /\ context = LayerPaint
  /\ requestedTile \in LayerTiles
  /\ index = 0
  /\ running = TRUE
  /\ feature = NoFeature
  /\ prior = LayerPaint
  /\ diagnostics = <<>>
  /\ styled = <<>>
  /\ calls = <<>>
  /\ urlTemplate = <<>>
  /\ maximumLevel = LayerMaxLevel
  /\ built = NoUrl
  /\ InitNoPick
  /\ InitNoHost

SpecLayer == InitLayer /\ [][NextLayer]_vars

\* ------------------------------------------------ the data tile and its URL

\* dataTileForDisplayTile(displayTile, maximumLevel) of ./utils: above the
\* maximum level the ancestor at that level and the scale 2^(level - maximum),
\* else the display tile itself and the scale 1
dataTileForDisplayTile(tile, maxLevel) ==
  IF tile.level > maxLevel
  THEN LET f == 2 ^ (tile.level - maxLevel)
       IN [dataTile |-> [level |-> maxLevel, x |-> tile.x \div f, y |-> tile.y \div f],
           ps |-> f]
  ELSE [dataTile |-> tile, ps |-> 1]

\* decodeURIComponent(template), piece by piece
decodeURIComponent(template) ==
  [k \in DOMAIN template |->
     CASE template[k] = "%7Bz%7D" -> "{z}"
       [] template[k] = "%7Bx%7D" -> "{x}"
       [] template[k] = "%7By%7D" -> "{y}"
       [] template[k] = ".pbf?key=a%2Bb" -> ".pbf?key=a+b"
       [] OTHER -> template[k]]

\* the place of the first piece equal to pattern, 0 if there is none
indexOf(s, pattern) ==
  IF \E k \in DOMAIN s : s[k] = pattern
  THEN CHOOSE k \in DOMAIN s : s[k] = pattern /\ \A j \in 1..(k - 1) : s[j] # pattern
  ELSE 0

\* String.prototype.replace(pattern, by) with a string pattern: the first
\* occurrence only
replace(s, pattern, by) ==
  IF indexOf(s, pattern) = 0 THEN s ELSE [s EXCEPT ![indexOf(s, pattern)] = by]

\* buildURLWithTileCoordinates(template, tile)
buildURLWithTileCoordinates(template, tile) ==
  LET decodedTemplate == decodeURIComponent(template)
      z == replace(decodedTemplate, "{z}",
                   IF tile.level <= ClampLevel THEN ToString(tile.level) ELSE ToString(ClampLevel))
      x == replace(z, "{x}", ToString(tile.x))
      y == replace(x, "{y}", ToString(tile.y))
  IN y

\* _renderCanvas up to the fetch: the data tile of requestedTile and its URL
RenderUrl ==
  /\ built.op = "none"
  /\ LET d == dataTileForDisplayTile(requestedTile, maximumLevel)
     IN built' = [op |-> "render", dataTile |-> d.dataTile, ps |-> d.ps,
                  url |-> buildURLWithTileCoordinates(urlTemplate, d.dataTile)]
  /\ UNCHANGED <<urlTemplate, maximumLevel, requestedTile, surface, context, index,
                 running, feature, prior, diagnostics, styled, polygonVars, pickVars,
                 poolVars, cacheVars, hostVars>>

\* pickFeatures up to the fetch: the URL is built from requestedTile
PickUrl ==
  /\ built.op = "none"
  /\ built' = [op |-> "pickFeatures", dataTile |-> requestedTile, ps |-> 1,
               url |-> buildURLWithTileCoordinates(urlTemplate, requestedTile)]
  /\ UNCHANGED <<urlTemplate, maximumLevel, requestedTile, surface, context, index,
                 running, feature, prior, diagnostics, styled, polygonVars, pickVars,
                 poolVars, cacheVars, hostVars>>

NextTile == RenderUrl \/ PickUrl

\* a Renderer with its URL template, asked for a tile
InitTile ==
  /\ hc = 1
  /\ InitPools
  /\ InitCache
  /\ InitNoPolygon
  /\ calls = <<>>
  /\ surface = "canvas"
  /\ context = LayerPaint
  /\ requestedTile \in Tiles
  /\ index = 0
  /\ running = FALSE
  /\ feature = NoFeature
  /\ prior = LayerPaint
  /\ diagnostics = <<>>
  /\ styled = <<>>
  /\ urlTemplate \in Templates
  /\ maximumLevel \in MaxLevels
  /\ built = NoUrl
  /\ InitNoPick
  /\ InitNoHost

SpecTile == InitTile /\ [][NextTile]_vars

\* ------------------------------------------------------------ pickFeatures
\* MVTImageryProvider.pickFeatures makes a Renderer of its own for every call
\* and awaits its pickFeatures; nothing on the way catches.

\* sequences over S of length up to n
SeqsUpTo(S, n) == UNION {[1..k -> S] : k \in 0..n}

\* the tiles the server may hold: two layers, the second one short
ServedTiles ==
  {("l1" :> a) @@ ("l2" :> b) :
     a \in SeqsUpTo(PickKinds, MaxPickFeatures),
     b \in {<<>>, <<[type |-> "Polygon", clicked |-> TRUE, declined |-> FALSE]>>}}

\* new Renderer(...): private readonly _tileCaches = new Map()
newTileCaches == <<>>

\* parseMVT(ab): the VectorTile of the bytes; one without layers for no bytes
parseMVT(resp) ==
  IF fetchResourceAsArrayBuffer(resp) = "tileBytes" THEN served ELSE <<>>

\* onSelectFeature(feature, requestedTile, currentLayer): the info of the
\* feature, here its layer and its place in it
onSelectFeature(name, i) == [layer |-> name, i |-> i]

\* faulty variant: a picker that is not restricted to polygons
isPickedAnyType(f) == f.clicked

\* the condition of _pickFeatures:
\* VectorTileFeature.types[feature.type] === "Polygon" && isFeatureClicked(...)
isPicked(f) == f.type = "Polygon" /\ f.clicked

\* the loop of _pickFeatures from feature i on: a picked feature that
\* onSelectFeature does not decline is pushed
RECURSIVE pickLoop(_, _, _)
pickLoop(name, layer, i) ==
  IF i > Len(layer)
  THEN <<>>
  ELSE (IF isPicked(layer[i]) /\ ~layer[i].declined
        THEN <<onSelectFeature(name, i)>>
        ELSE <<>>) \o pickLoop(name, layer, i + 1)

\* the callback of _pickFeaturesFromLayer for one layer name:
\* tile?.layers[name] absent gives [], else _pickFeatures
pickLayer(tile, name) ==
  IF tile = <<>> \/ name \notin DOMAIN tile[1]
  THEN <<>>
  ELSE pickLoop(name, tile[1][name], 1)

\* Array.prototype.flat of the results from place i on
RECURSIVE flat(_, _)
flat(pf, i) == IF i > Len(pf) THEN <<>> ELSE pf[i][1] \o flat(pf, i + 1)

\* faulty variant: the results put together in the order they arrived in
RECURSIVE flatArrived(_, _, _)
flatArrived(pf, order, k) ==
  IF k > Len(order) THEN <<>> ELSE pf[order[k]][1] \o flatArrived(pf, order, k + 1)

\* faulty variant of collect
collectArrived(p) == flatArrived(p.pf, p.order, 1)

\* (await Promise.all(...)).flat(): the results by place in layerNames
collect(p) == flat(p.pf, 1)

\* provider.pickFeatures(x, y, level, ...): new Renderer, the URL of the
\* requested tile, _cachedTile up to its await
PickCall(url) ==
  /\ pick.pc \in {"none", "done", "rejected"}
  /\ pick.n < MaxPicks
  /\ LET c == cachedTileOn(newTileCaches, url)
     IN /\ pick' = [NoPick EXCEPT !.n = pick.n + 1, !.url = url, !.fetches = c.fetches,
                                  !.pc = IF c.pc = "parsing" THEN "fetching" ELSE "picking",
                                  !.pf = IF c.pc = "parsing" THEN <<>>
                                         ELSE [i \in DOMAIN layerNames |-> <<>>]]
        /\ tileCaches' = newTileCaches
  /\ UNCHANGED <<served, layerNames, pickOptions, picksDecoded, decodes, warm, call,
                 poolVars, polygonVars, layerVars, tileVars, hostVars>>

\* _cachedTile after its await, then _pickFeaturesFromLayer starts one pick
\* per layer name; a throw of parseMVT rejects the whole call
PickFetched(resp) ==
  /\ pick.pc = "fetching"
  /\ LET parsed == defaultParseTile(resp)
     IN IF parsed = "throws"
        THEN /\ pick' = [pick EXCEPT !.pc = "rejected", !.resp = resp]
             /\ UNCHANGED <<tileCaches, picksDecoded, decodes>>
        ELSE IF tileToCacheable(parsed) = "undefined"
        THEN /\ pick' = [pick EXCEPT !.pc = "picking", !.resp = resp,
                                     !.pf = [i \in DOMAIN layerNames |-> <<>>]]
             /\ UNCHANGED <<tileCaches, picksDecoded, decodes>>
        ELSE /\ pick' = [pick EXCEPT !.pc = "picking", !.resp = resp,
                                     !.tile = <<parseMVT(resp)>>,
                                     !.pf = [i \in DOMAIN layerNames |-> <<>>]]
             /\ decodes' = decodes + 1
             /\ tileCaches' = (pick.url :> decodes + 1) @@ tileCaches
             /\ picksDecoded' = picksDecoded \cup {pick.url}
  /\ UNCHANGED <<served, layerNames, pickOptions, warm, call, poolVars, polygonVars,
                 layerVars, tileVars, hostVars>>

\* the pick of the i-th layer name completes
LayerPicked(i) ==
  /\ pick.pc = "picking"
  /\ i \in DOMAIN pick.pf
  /\ pick.pf[i] = <<>>
  /\ pick' = [pick EXCEPT !.pf[i] = <<pickLayer(pick.tile, layerNames[i])>>,
                          !.order = Append(@, i)]
  /\ UNCHANGED <<served, layerNames, pickOptions, picksDecoded, cacheVars, poolVars,
                 polygonVars, layerVars, tileVars, hostVars>>

\* Promise.all resolves: pickFeatures returns the flattened results
PickDone ==
  /\ pick.pc = "picking"
  /\ \A i \in DOMAIN pick.pf : pick.pf[i] # <<>>
  /\ pick' = [pick EXCEPT !.pc = "done", !.result = collect(pick)]
  /\ UNCHANGED <<served, layerNames, pickOptions, picksDecoded, cacheVars, poolVars,
                 polygonVars, layerVars, tileVars, hostVars>>

NextPick ==
  \/ \E url \in Urls : PickCall(url)
  \/ \E resp \in Responses : PickFetched(resp)
  \/ \E i \in DOMAIN layerNames : LayerPicked(i)
  \/ PickDone

InitPick ==
  /\ hc = 1
  /\ InitPools
  /\ InitCache
  /\ InitNoPolygon
  /\ calls = <<>>
  /\ InitNoLayer
  /\ InitNoTile
  /\ served \in ServedTiles
  /\ layerNames \in LayerNameLists
  /\ pickOptions \in PickOptions
  /\ pick = NoPick
  /\ picksDecoded = {}
  /\ InitNoHost

SpecPick == InitPick /\ [][NextPick]_vars

\* ------------------------------------------------- renderTile of the worker
\* One worker thread runs the renderTile tasks it is given one at a time.

\* renderTile up to the await inside render: getContext("2d"), without a
\* context the task returns; getTileRenderer makes a new Renderer, whose
\* render asks _cachedTile for the tile
RenderTileStart(ctx, url) ==
  /\ Len(renders) < MaxRenders
  /\ \A k \in DOMAIN renders : renders[k].pc \in {"completed", "rejected"}
  /\ IF ~ctx
     THEN /\ renders' = Append(renders, [ctx |-> FALSE, pc |-> "completed", url |-> url,
                                         events |-> <<>>, cached |-> 0])
          /\ UNCHANGED tileCaches
     ELSE /\ renders' = Append(renders,
                               [ctx |-> TRUE, url |-> url, events |-> <<"render">>,
                                cached |-> Cardinality(DOMAIN newTileCaches),
                                pc |-> IF cachedTileOn(newTileCaches, url).pc = "parsing"
                                       THEN "rendering" ELSE "rendered"])
          /\ tileCaches' = newTileCaches
  /\ UNCHANGED <<call, decodes, warm, poolVars, polygonVars, layerVars, tileVars, pickVars,
                 providerVars>>

\* _cachedTile after its await inside render: a throw of parseMVT rejects
\* render and with it the task; else the tile is stored and drawn
RenderTileFetched(resp) ==
  /\ renders # <<>>
  /\ renders[Len(renders)].pc = "rendering"
  /\ LET k == Len(renders)
         parsed == defaultParseTile(resp)
     IN IF parsed = "throws"
        THEN /\ renders' = [renders EXCEPT ![k].pc = "rejected"]
             /\ UNCHANGED <<tileCaches, decodes>>
        ELSE IF tileToCacheable(parsed) = "undefined"
        THEN /\ renders' = [renders EXCEPT ![k].pc = "rendered"]
             /\ UNCHANGED <<tileCaches, decodes>>
        ELSE /\ renders' = [renders EXCEPT ![k].pc = "rendered"]
             /\ decodes' = decodes + 1
             /\ tileCaches' = (renders[k].url :> decodes + 1) @@ tileCaches
  /\ UNCHANGED <<call, warm, poolVars, polygonVars, layerVars, tileVars, pickVars,
                 providerVars>>

\* renderTile after `await tileRenderer.render(...)`: clearCache(), then
\* requestAnimationFrame(resolve) is asked for
RenderTileClear ==
  /\ renders # <<>>
  /\ renders[Len(renders)].pc = "rendered"
  /\ renders' = [renders EXCEPT ![Len(renders)].pc = "waitingFrame",
                                ![Len(renders)].events = @ \o <<"clearCache", "requestFrame">>]
  /\ tileCaches' = <<>>
  /\ UNCHANGED <<call, decodes, warm, poolVars, polygonVars, layerVars, tileVars, pickVars,
                 providerVars>>

\* the next animation frame: the promise renderTile awaits resolves and the
\* task completes
AnimationFrame ==
  /\ renders # <<>>
  /\ renders[Len(renders)].pc = "waitingFrame"
  /\ renders' = [renders EXCEPT ![Len(renders)].pc = "completed",
                                ![Len(renders)].events = Append(@, "frame")]
  /\ UNCHANGED <<cacheVars, poolVars, polygonVars, layerVars, tileVars, pickVars,
                 providerVars>>

NextWorker ==
  \/ \E ctx \in BOOLEAN, url \in Urls : RenderTileStart(ctx, url)
  \/ \E resp \in Responses : RenderTileFetched(resp)
  \/ RenderTileClear
  \/ AnimationFrame

InitWorker ==
  /\ hc = 1
  /\ InitPools
  /\ InitCache
  /\ InitNoRender

SpecWorker == InitWorker /\ [][NextWorker]_vars

\* ------------------------------------------------ MVTImageryProvider
\* Providers are made once and call requestImage in any order; they share
\* the module's layerUsed and the registry of pools.

\* the options a provider is made with: options.worker ?? false, options.layer
ProviderOptions == [useWorker : BOOLEAN, layer : Optional(Layers)]

\* the providers tried: any two, or one alone that calls often
Fleets ==
  [1..2 -> ProviderOptions]
    \cup {<<[useWorker |-> w, layer |-> <<[id |-> "a", rev |-> 1]>>]>> : w \in BOOLEAN}

\* the requestImage calls looked at: enough for one provider to fill a queue
RequestLimit == IF Len(providers) = 1 THEN maximumTasks + 2 ELSE MaxRequests

\* two providers in worker mode of one layer id with different contents:
\* each tears down the pool the other one used
TeardownFleets ==
  {<<[useWorker |-> TRUE, layer |-> <<[id |-> "a", rev |-> 1]>>],
     [useWorker |-> TRUE, layer |-> <<[id |-> "a", rev |-> 2]>>]>>}

\* the requestImage calls looked at for them: enough for the first provider
\* to reach its ceiling, be torn down and call again
TeardownLimit == maximumTasksPerImagery + 2

\* the admission gate of requestImage: passed unless the provider uses
\* workers and its taskCount is at the ceiling or canQueue says no
admits(pv, layerId) ==
  ~(/\ providers[pv].useWorker
    /\ \/ taskCount[pv] >= maximumTasksPerImagery
       \/ ~canQueue(layerId, maximumTasks))

\* the test before destroy(layerUsed.id): layerUsed is set, is not equal to
\* the current layer and has the same id
destroysLayerUsed(currentLayer) ==
  /\ layerUsed # <<>>
  /\ layerUsed[1] # currentLayer
  /\ layerUsed[1].id = currentLayer.id

\* faulty variant: the promises of the tasks of a terminated pool never settle
rejectedNever(ended) == {}

\* Pool.terminate(true) of "threads": the promise of every task that has not
\* settled is rejected, so the catch and the finally of its requestImage run
rejected(ended) == ended

\* requestImage(x, y, level) of provider pv with what its promises do at
\* once: destroy up to its await, the gate, ++taskCount and renderWorker's
\* queue call; the promises terminate(true) rejects and a queue call that
\* throws run the finally of their requestImage
RequestImage(pv) ==
  /\ pv \in DOMAIN providers
  /\ requests < requestLimit
  /\ requests' = requests + 1
  /\ IF providers[pv].layer = <<>>
     THEN /\ last' = [op |-> "requestImage", key |-> NoKey, pid |-> 0, t |-> 0, ok |-> FALSE]
          /\ UNCHANGED <<workerPools, pool, task, pendingDestroy, taskCount, layerUsed>>
     ELSE LET currentLayer == providers[pv].layer[1]
              id == currentLayer.id
              p == find(id)
              torn == destroysLayerUsed(currentLayer) /\ p # 0
              ended == IF torn THEN Unfinished(p) ELSE {}
              admitted == admits(pv, id)
              closing == p # 0 /\ (torn \/ pool[p].isClosing)
              queued == admitted /\ ~closing
              g == get(id)
              t == Len(task) + 1
              task1 == [u \in DOMAIN task |->
                          IF u \in ended THEN [task[u] EXCEPT !.st = "terminated"]
                          ELSE task[u]]
          IN /\ torn => Len(pendingDestroy) < MaxPendingDestroy
             /\ (admitted /\ p = 0) => Len(pool) < MaxPools
             /\ layerUsed' = <<currentLayer>>
             /\ pendingDestroy' =
                  IF torn
                  THEN suspend(pendingDestroy, [index |-> findIndex(id), pid |-> p])
                  ELSE pendingDestroy
             /\ workerPools' = IF admitted THEN g.reg ELSE workerPools
             /\ pool' = IF queued
                        THEN [g.pools EXCEPT ![g.pid] = poolQueue(@, t)]
                        ELSE IF torn THEN [pool EXCEPT ![p].isClosing = TRUE] ELSE pool
             /\ task' = IF admitted
                        THEN Append(task1, [layerId |-> id, owner |-> pv,
                                            pool |-> IF queued THEN g.pid ELSE 0,
                                            st |-> IF queued THEN "pending" ELSE "refused"])
                        ELSE task1
             /\ taskCount' =
                  [q \in DOMAIN taskCount |->
                     taskCount[q] - Cardinality({u \in rejected(ended) : task[u].owner = q})
                       + (IF q = pv /\ queued THEN 1 ELSE 0)]
             /\ last' = [op |-> "requestImage", key |-> id, pid |-> IF queued THEN g.pid ELSE p,
                         t |-> IF admitted THEN t ELSE 0, ok |-> queued]
  /\ UNCHANGED <<hc, providers, requestLimit, cacheVars, polygonVars, layerVars, tileVars,
                 pickVars, workerVars>>

\* what a render may reject with: an Error or another value, with a message
\* that starts with "Unimplemented type", has it further on, or lacks it
Thrown ==
  [isError : BOOLEAN,
   message : {<<"Unimplemented type", ": 4">>, <<"Failed: ", "Unimplemented type">>,
              <<"Pool failed">>}]

\* message.startsWith(prefix)
startsWith(message, prefix) == message # <<>> /\ message[1] = prefix

\* faulty variant: a catch that takes every Error for an unimplemented type
catchesAnyError(thrown) == thrown # <<>> /\ ~thrown[1].isError

\* then/catch of requestImage: TRUE when the promise rejects, with the error
\* caught; it resolves with the canvas when the render was fulfilled or threw
\* an Error whose message starts with "Unimplemented type"
rethrows(thrown) ==
  /\ thrown # <<>>
  /\ ~(thrown[1].isError /\ startsWith(thrown[1].message, "Unimplemented type"))

\* faulty variant: a finally that counts down fulfilled renders only
finallyIfFulfilled(n, thrown) == IF thrown = <<>> THEN n - 1 ELSE n

\* finally of requestImage: --this.taskCount, however the render settled
finally(n, thrown) == n - 1

\* the worker settles task.renderTile(...) of a running task, fulfilled or
\* throwing: the pool goes on, and then/catch/finally of the requestImage
\* call run
RenderSettled(t, thrown) ==
  /\ t \in DOMAIN task
  /\ task[t].st = "pending"
  /\ t \in pool[task[t].pool].running
  /\ settleTask(t, "settled")
  /\ taskCount' = [taskCount EXCEPT ![task[t].owner] = finally(@, thrown)]
  /\ last' = [op |-> "settled", key |-> task[t].layerId, pid |-> task[t].pool, t |-> t,
              ok |-> ~rethrows(thrown), thrown |-> thrown,
              error |-> IF rethrows(thrown) THEN thrown ELSE <<>>]
  /\ UNCHANGED <<hc, pendingDestroy, providers, layerUsed, requests, requestLimit,
                 cacheVars, polygonVars, layerVars, tileVars, pickVars, workerVars>>

NextProvider ==
  \/ \E pv \in 1..2 : RequestImage(pv)
  \/ \E t \in 1..(maximumTasks + 2), thrown \in Optional(Thrown) : RenderSettled(t, thrown)
  \/ \E d \in 1..MaxPendingDestroy : DestroyResume(d)

\* providers that have not called yet, on a host where nothing else goes on
InitFleet ==
  /\ hc = 1
  /\ InitPools
  /\ InitCache
  /\ InitNoPolygon
  /\ calls = <<>>
  /\ InitNoLayer
  /\ InitNoTile
  /\ InitNoPick
  /\ renders = <<>>
  /\ taskCount = [pv \in DOMAIN providers |-> 0]
  /\ layerUsed = <<>>
  /\ requests = 0

InitProvider ==
  /\ providers \in Fleets
  /\ requestLimit = RequestLimit
  /\ InitFleet

SpecProvider == InitProvider /\ [][NextProvider]_vars

\* the providers that tear down each other's pool, on workers that settle
\* every task they run and with every terminate() ending
InitTeardown ==
  /\ providers \in TeardownFleets
  /\ requestLimit = TeardownLimit
  /\ InitFleet

\* a running task is settled, fulfilled or with an error
Settles(t) ==
  \E thrown \in {<<>>, <<[isError |-> TRUE, message |-> <<"Pool failed">>]>>} :
    RenderSettled(t, thrown)

NextTeardown ==
  \/ \E pv \in 1..2 : RequestImage(pv)
  \/ \E t \in 1..TeardownLimit : Settles(t)
  \/ \E d \in 1..MaxPendingDestroy : DestroyResume(d)

SpecTeardown ==
  /\ InitTeardown
  /\ [][NextTeardown]_vars
  /\ \A t \in 1..TeardownLimit : WF_vars(Settles(t))
  /\ \A d \in 1..MaxPendingDestroy : WF_vars(DestroyResume(d))

\* ------------------------------------------------ render over the layer names
\* Renderer.render starts one _renderCanvas per entry of _layerNames, all for
\* the URL of the same data tile, and awaits them together. Each entry names
\* one layer here.

\* a call made on the context by the _renderCanvas of entry `at` of render r
SurfaceCall(op, r, at) == [op |-> op, r |-> r, at |-> at]

\* the tile _cachedTile resolves with: <<>> for undefined, else the tile the
\* call that stored it had decoded
tileOf(id) ==
  IF id = 0
  THEN <<>>
  ELSE <<parseMVT(call[CHOOSE c \in DOMAIN call :
                         call[c].result = id /\ call[c].resp # NoResponse].resp)>>

\* layers.forEach(layer => ...): nothing for a layer the tile lacks, else
\* save, translate, the features one after the other, restore
layerCalls(tile, name, r, at) ==
  IF tile = <<>> \/ name \notin DOMAIN tile[1]
  THEN <<>>
  ELSE <<SurfaceCall("save", r, at), SurfaceCall("translate", r, at)>>
       \o [k \in 1..Len(tile[1][name]) |-> SurfaceCall("feature", r, at)]
       \o <<SurfaceCall("restore", r, at)>>

\* _renderCanvas after its await: the paint is set, context.save(), then
\* the layers of the entry
renderCanvas(tile, name, r, at) ==
  <<SurfaceCall("save", r, at)>> \o layerCalls(tile, name, r, at)

\* the entries from place i on whose _cachedTile resolved without a fetch go
\* on in the order they were started in
RECURSIVE renderAll(_, _, _)
renderAll(tile, r, i) ==
  IF i > Len(layerNames)
  THEN <<>>
  ELSE renderCanvas(tile, layerNames[i], r, i) \o renderAll(tile, r, i + 1)

\* the render calls made so far
rendersStarted == Cardinality({c \in DOMAIN call : call[c].at = 1})

\* render(context, requestedTile, ...): every _renderCanvas runs up to its
\* `await this._cachedTile(url)`; those served from the cache draw at once
RenderCall(url) ==
  /\ rendersStarted < MaxPasses
  /\ \A c \in DOMAIN call : call[c].pc # "parsing"
  /\ LET r == rendersStarted + 1
         looked == cachedTile(url)
     IN /\ call' = call \o [i \in DOMAIN layerNames |->
                               [url |-> url, expect |-> WarmTile(url), resp |-> NoResponse,
                                r |-> r, at |-> i] @@ looked]
        /\ calls' = IF looked.pc = "done"
                     THEN calls \o renderAll(tileOf(looked.result), r, 1)
                     ELSE calls
  /\ UNCHANGED <<tileCaches, decodes, warm, coordinates, shouldRenderLine, poolVars,
                 layerVars, tileVars, pickVars, hostVars>>

\* the _cachedTile of one _renderCanvas is answered: the tile is stored and
\* the entry is drawn; a throw of the parser rejects this _renderCanvas
RenderCanvasResume(c, resp) ==
  /\ c \in DOMAIN call
  /\ call[c].pc = "parsing"
  /\ LET parsed == defaultParseTile(resp)
         url == call[c].url
         name == layerNames[call[c].at]
     IN IF parsed = "throws"
        THEN /\ call' = [call EXCEPT ![c].pc = "threw", ![c].resp = resp]
             /\ UNCHANGED <<tileCaches, decodes, warm, calls>>
        ELSE IF tileToCacheable(parsed) = "undefined"
        THEN /\ call' = [call EXCEPT ![c].pc = "done", ![c].resp = resp]
             /\ calls' = calls \o renderCanvas(<<>>, name, call[c].r, call[c].at)
             /\ UNCHANGED <<tileCaches, decodes, warm>>
        ELSE /\ decodes' = decodes + 1
             /\ tileCaches' = (url :> decodes + 1) @@ tileCaches
             /\ warm' = (url :> decodes + 1) @@ warm
             /\ call' = [call EXCEPT ![c].pc = "done", ![c].result = decodes + 1,
                                      ![c].resp = resp]
             /\ calls' = calls \o renderCanvas(<<parseMVT(resp)>>, name,
                                                call[c].r, call[c].at)
  /\ UNCHANGED <<coordinates, shouldRenderLine, poolVars, layerVars, tileVars, pickVars,
                 hostVars>>

NextRender ==
  \/ \E url \in Urls \cup {EmptyUrl} : RenderCall(url)
  \/ \E c \in 1..(2 * MaxPasses), resp \in Responses : RenderCanvasResume(c, resp)

\* the tiles rendered: up to two features in the first layer, up to one in
\* the second
RenderedTiles ==
  {t \in ServedTiles :
     \A k \in DOMAIN t["l1"] : t["l1"][k] = [type |-> "Polygon", clicked |-> TRUE,
                                              declined |-> FALSE]}

\* one Renderer with its layer names, and the tile the server holds
InitRender ==
  /\ hc = 1
  /\ InitPools
  /\ InitCache
  /\ InitNoPolygon
  /\ calls = <<>>
  /\ InitNoLayer
  /\ InitNoTile
  /\ served \in RenderedTiles
  /\ layerNames \in LayerNameLists
  /\ pickOptions = [pickPointRadius |-> <<>>, pickLineWidth |-> <<>>]
  /\ pick = NoPick
  /\ picksDecoded = {}
  /\ InitNoHost

SpecRender == InitRender /\ [][NextRender]_vars

\* ------------------------------------------------------------------ claims

\* The refutations below are sought on hosts that report at least one core,
\* where every pool has a worker.
AtLeastOneCore == hc >= 1

\* the pools registered under layerId
RegisteredFor(layerId) == {p \in Range(workerPools) : pool[p].layerId = layerId}

\* the tasks submitted under layerId
EnqueuedUnder(layerId) == {t \in DOMAIN task : task[t].layerId = layerId}

\* the tasks of layerId's registered pool that no worker has taken yet
Waiting(layerId) ==
  {t \in DOMAIN task :
     /\ task[t].st = "pending"
     /\ task[t].pool \in RegisteredFor(layerId)
     /\ t \notin pool[task[t].pool].running}

\* C1: canQueue(layerId, maxQueuedJobs) is true exactly when no pool is
\* registered for layerId or the registered pool's queue depth is strictly
\* less than maxQueuedJobs, and false when the depth is equal or greater.
C1_CanQueueIffNoPoolOrBelowLimit ==
  \A k \in Keys, n \in 0..MaxJobs :
    canQueue(k, n) <=>
      \/ RegisteredFor(k) = {}
      \/ \E p \in RegisteredFor(k) : Len(pool[p].taskQueue) < n

\* a registered pool with one task waiting: canQueue(k, 1) is false, canQueue(k, 2) true
C1_Witness ==
  \E k \in Keys : \E p \in RegisteredFor(k) :
    /\ Len(pool[p].taskQueue) = 1
    /\ ~canQueue(k, 1)
    /\ canQueue(k, 2)

\* C2 as stated: canQueue(key, N) is true for a key without pool, and false
\* once exactly N tasks have been enqueued under key and none has completed,
\* whether or not workers have started some of them.
C2_Original ==
  \A k \in Keys, n \in 1..MaxJobs :
    /\ RegisteredFor(k) = {} => canQueue(k, n)
    /\ (/\ AtLeastOneCore
        /\ Cardinality(EnqueuedUnder(k)) = n
        /\ \A t \in EnqueuedUnder(k) : task[t].st = "pending")
       => ~canQueue(k, n)

\* C2 amended: canQueue(key, N) is true for a key without registered pool,
\* and false once exactly N tasks of key's registered pool are waiting, that
\* is enqueued and not yet taken by a worker; started tasks do not count.
C2_FalseOnceNWaiting ==
  \A k \in Keys, n \in 1..MaxJobs :
    /\ RegisteredFor(k) = {} => canQueue(k, n)
    /\ Cardinality(Waiting(k)) = n => ~canQueue(k, n)

\* a pool whose workers are busy and which has N tasks waiting refuses N
C2_Witness ==
  \E k \in Keys, n \in 1..MaxJobs : \E p \in RegisteredFor(k) :
    /\ pool[p].running # {}
    /\ Cardinality(Waiting(k)) = n
    /\ ~canQueue(k, n)

\* C3 as stated: right after destroy(key) is called (awaited or not), the
\* next canQueue(key, 1) returns true, whatever the queue depth was.
C3_Original == (AtLeastOneCore /\ last.op = "destroy") => canQueue(last.key, 1)

\* C4: the registry never holds two pools with the same layerId.
C4_OnePoolPerLayerId ==
  \A i, j \in DOMAIN workerPools :
    pool[workerPools[i]].layerId = pool[workerPools[j]].layerId => i = j

\* a key whose pool was destroyed and removed has a new pool registered
C4_Witness ==
  \E p \in Range(workerPools), q \in DOMAIN pool :
    /\ q \notin Range(workerPools)
    /\ pool[q].layerId = pool[p].layerId
    /\ ~pool[p].isClosing

\* C5 as stated: destroy(key) on an existing pool terminates it at once,
\* its unfinished tasks not being waited for, and once destroy has finished
\* the pool is no longer registered.
C5_Original ==
  /\ (last.op = "destroy" /\ last.pid # 0) =>
       /\ pool[last.pid].isClosing
       /\ Unfinished(last.pid) = {}
  /\ (AtLeastOneCore /\ last.op = "destroyed") => last.pid \notin Range(workerPools)

\* C6 as stated: destroy(key) without a registered pool changes nothing, and
\* a second destroy(key) adds nothing to the first: when it resumes with its
\* pool already removed, the registry stays as it is.
C6_Original ==
  [][/\ \A k \in Keys :
          (DestroyCall(k) /\ findIndex(k) = 0) =>
             UNCHANGED <<workerPools, pool, task, pendingDestroy>>
     /\ \A d \in DOMAIN pendingDestroy :
          (/\ AtLeastOneCore
           /\ DestroyResume(d)
           /\ pendingDestroy[d].pid \notin Range(workerPools)) =>
             UNCHANGED workerPools]_vars

\* C7 as stated: every queue(task, layerId) call is accepted: it does not
\* throw, uses the pool registered for layerId and adds one task to it.
C7_Original ==
  (AtLeastOneCore /\ last.op = "queue") =>
    /\ last.ok
    /\ task[last.t].st = "pending"
    /\ task[last.t].pool = find(last.key)
    /\ \/ last.t \in Range(pool[find(last.key)].taskQueue)
       \/ last.t \in pool[find(last.key)].running

\* C8 as stated: every pool has an integer worker count of at least 1, the
\* hardware concurrency divided by the fixed factor and rounded up.
C8_Original ==
  \A p \in DOMAIN pool :
    /\ pool[p].size >= 1
    /\ pool[p].size * PoolSizeDivisor >= hc
    /\ (pool[p].size - 1) * PoolSizeDivisor < hc

C10_SecondCallServedFromCache ==
  \A c \in DOMAIN call :
    /\ call[c].expect # 0 =>
         /\ call[c].pc = "done"
         /\ call[c].fetches = 0
         /\ call[c].result = call[c].expect
    /\ (call[c].expect = 0 /\ call[c].result # 0) => call[c].fetches = 1

\* two calls for one URL: the first fetched and decoded, the second got its tile
C10_Witness ==
  \E c1, c2 \in DOMAIN call :
    /\ c1 < c2
    /\ call[c1].url = call[c2].url
    /\ call[c1].fetches = 1
    /\ call[c1].result # 0
    /\ call[c2].expect = call[c1].result
    /\ call[c2].result = call[c1].result

\* the answers of fetch that are no tile delivery: a rejected fetch, a
\* response of a non-success status, a response without a body
FailedFetch == {"networkError", "httpErrorEmpty", "httpErrorPage", "emptyBody"}

\* the answers whose body has bytes that do not decode as a vector tile
UndecodableBody == {"malformed", "httpErrorPage"}

\* C11: when the fetch for a tile fails (network error, non-success status,
\* or empty body), _cachedTile returns absent without throwing and stores
\* nothing under that URL.
C11_Original ==
  \A c \in DOMAIN call :
    call[c].resp \in FailedFetch =>
      /\ call[c].pc = "done"
      /\ call[c].result = 0

\* C12: when the fetched bytes cannot be decoded as a vector tile,
\* _cachedTile returns absent instead of throwing.
C12_Original ==
  \A c \in DOMAIN call :
    call[c].resp \in UndecodableBody => call[c].pc = "done" /\ call[c].result = 0

\* C13: _cachedTile called with the empty URL returns absent at once, without
\* fetching, without throwing, and without changing the cache.
C13_EmptyUrlIsAbsentAtOnce ==
  [][\A c \in DOMAIN call' :
       call'[c].url = EmptyUrl =>
         /\ call'[c].pc = "done"
         /\ call'[c].result = 0
         /\ call'[c].fetches = 0
         /\ c \notin DOMAIN call => (tileCaches' = tileCaches /\ decodes' = decodes)]_vars

\* a call with the empty URL has returned while the cache held a tile
C13_Witness ==
  \E c1, c2 \in DOMAIN call :
    /\ c1 < c2
    /\ call[c1].result # 0
    /\ call[c2].url = EmptyUrl
    /\ call[c2].pc = "done"
    /\ call[c1].url \in DOMAIN tileCaches

\* the number of vertices of all rings of the polygon
RECURSIVE Total(_)
Total(rings) == IF rings = <<>> THEN 0 ELSE Head(rings) + Total(Tail(rings))

\* the calls of one kind among the calls made
CallsOf(op) == {k \in DOMAIN calls : calls[k].op = op}

\* the path a fill or stroke call k covers: the rings since the last beginPath
PathOf(k) ==
  {r \in 1..k : /\ calls[r].op = "ring"
                /\ ~\E b \in r..k : calls[b].op = "beginPath"}

RECURSIVE VerticesOf(_)
VerticesOf(path) ==
  IF path = {} THEN 0
  ELSE LET r == CHOOSE x \in path : TRUE IN calls[r].n + VerticesOf(path \ {r})

\* every flush is one fill, followed by one stroke exactly when the line is on
FlushesWellFormed ==
  /\ \A k \in CallsOf("fill") :
       shouldRenderLine => (k < Len(calls) /\ calls[k + 1].op = "stroke")
  /\ \A k \in CallsOf("stroke") :
       shouldRenderLine /\ k > 1 /\ calls[k - 1].op = "fill"

\* C14 as stated: more than 5400 vertices in all give at least two flushes,
\* at most 5400 give exactly one flush, for every number and size of rings.
C14_Original ==
  calls # <<>> =>
    /\ Total(coordinates) > MAX_VERTICES_PER_CALL => Cardinality(CallsOf("fill")) >= 2
    /\ Total(coordinates) <= MAX_VERTICES_PER_CALL => Cardinality(CallsOf("fill")) = 1

\* C14: _renderPolygon on rings of more than 5400 vertices in all issues at
\* least two flushes; on at least one ring and at most 5400 vertices in all
\* it issues exactly one flush; on a polygon without rings it issues none.
\* A flush is a fill, with a stroke when the line is enabled.
C14_FlushCount ==
  calls # <<>> =>
    /\ FlushesWellFormed
    /\ Total(coordinates) > MAX_VERTICES_PER_CALL => Cardinality(CallsOf("fill")) >= 2
    /\ (coordinates # <<>> /\ Total(coordinates) <= MAX_VERTICES_PER_CALL)
         => Cardinality(CallsOf("fill")) = 1
    /\ coordinates = <<>> => CallsOf("fill") = {}

\* two rings of exactly 5400 vertices in all were drawn in one flush
C14_Witness ==
  /\ Len(coordinates) = 2
  /\ Total(coordinates) = MAX_VERTICES_PER_CALL
  /\ Cardinality(CallsOf("fill")) = 1

\* C15 as stated: every flush covers a path of at most 5400 vertices.
C15_Original ==
  \A k \in CallsOf("fill") \cup CallsOf("stroke") :
    VerticesOf(PathOf(k)) <= MAX_VERTICES_PER_CALL

\* C15: every flush of _renderPolygon covers a path of at most 5400
\* accumulated ring vertices, or a path that is one single ring (a ring that
\* alone has more than 5400 vertices is flushed whole, on its own).
C15_FlushWithinCeilingOrOneRing ==
  \A k \in CallsOf("fill") \cup CallsOf("stroke") :
    \/ VerticesOf(PathOf(k)) <= MAX_VERTICES_PER_CALL
    \/ Cardinality(PathOf(k)) = 1

\* three rings drawn in two flushes, one of them for a ring over the ceiling
C15_Witness ==
  /\ Len(coordinates) = 3
  /\ Cardinality(CallsOf("fill")) = 2
  /\ \E k \in CallsOf("fill") : VerticesOf(PathOf(k)) > MAX_VERTICES_PER_CALL
  /\ \E k \in CallsOf("fill") : Cardinality(PathOf(k)) = 2

\* the step handles the next feature of the layer
FeatureHandled == index' = index + 1

\* the feature handled is drawn: it is not culled and evalStyle gave a style
IsDrawn(f) == ~f.culled /\ f.style # <<>>

\* in the calls cs every flush is one fill, with one stroke after it exactly
\* when stroked holds, and there is no stroke elsewhere
FlushesAre(cs, stroked) ==
  \A k \in DOMAIN cs :
    /\ cs[k].op = "fill" =>
         /\ k > 1 /\ cs[k - 1].op \in {"beginPath", "ring"}
         /\ stroked <=> (k < Len(cs) /\ cs[k + 1].op = "stroke")
    /\ cs[k].op = "stroke" => k > 1 /\ cs[k - 1].op = "fill"

\* C16 as stated: each polygon flush issues fill once, and stroke once if and
\* only if the line width in effect on the surface for the feature is above 0.
C16_Original ==
  [][(FeatureHandled /\ feature'.type = "Polygon" /\ IsDrawn(feature'))
       => FlushesAre(calls', context'.lineWidth > 0)]_vars

\* C16: each polygon flush issues fill exactly once, and stroke exactly once
\* if and only if the lineWidth of the feature's style, or 1 when the style
\* gives none, is above 0.
C16_StrokeIffStyleWidthPositive ==
  [][(FeatureHandled /\ feature'.type = "Polygon" /\ IsDrawn(feature'))
       => /\ FlushesAre(calls', orElse(feature'.style[1].lineWidth, 1) > 0)
          /\ \E k \in DOMAIN calls' : calls'[k].op = "fill"]_vars

\* a polygon whose style gives no lineWidth was flushed twice, with strokes,
\* while the width left on the context by the feature before it was 0
C16_Witness ==
  /\ running
  /\ feature.type = "Polygon"
  /\ IsDrawn(feature)
  /\ feature.style[1].lineWidth = <<>>
  /\ context.lineWidth = 0
  /\ Cardinality(CallsOf("stroke")) = 2
  /\ Cardinality(CallsOf("fill")) = 2

\* C17: a feature for which evalStyle returns no style causes no call on the
\* context and no change of its paint state, logs and raises nothing, and
\* leaves the loop over the layer's features running.
C17_NoStyleNoTrace ==
  [][(FeatureHandled /\ feature'.style = <<>>)
       => /\ calls' = <<>>
          /\ context' = context
          /\ diagnostics' = <<>>
          /\ running']_vars

\* a feature without style was handled after a feature that had changed the
\* paint state; the paint state is as that feature left it
C17_Witness ==
  /\ index = 2
  /\ running
  /\ ~feature.culled
  /\ feature.style = <<>>
  /\ context # LayerPaint
  /\ context = prior

\* C18 as stated: every feature of a type other than Polygon, LineString and
\* Point produces one diagnostic naming the type and the tile, and no draw
\* call, and the loop goes on.
C18_Original ==
  [][(FeatureHandled /\ feature'.type = "Unknown")
       => /\ diagnostics' = <<[type |-> feature'.type, tile |-> requestedTile]>>
          /\ calls' = <<>>
          /\ running']_vars

\* C18: a feature of a type other than Polygon, LineString and Point that is
\* drawn (not culled, and given a style) produces one diagnostic naming the
\* type and the tile and no call on the context; one that is culled or has
\* no style produces no diagnostic; either way the loop goes on.
C18_UnexpectedTypeLogged ==
  [][(FeatureHandled /\ feature'.type = "Unknown")
       => /\ diagnostics' = IF IsDrawn(feature')
                            THEN <<[type |-> feature'.type, tile |-> requestedTile]>>
                            ELSE <<>>
          /\ calls' = <<>>
          /\ running']_vars

\* a styled feature of an unexpected type was handled first and logged, with
\* features of the layer left to draw
C18_Witness ==
  /\ index = 1
  /\ running
  /\ feature.type = "Unknown"
  /\ IsDrawn(feature)
  /\ Len(diagnostics) = 1
  /\ diagnostics[1].tile = requestedTile
  /\ requestedTile.level = 3

\* the level, column and row a built URL names: what stands where the
\* template has {z}, {x} and {y}
NamedIn(url) ==
  LET t == decodeURIComponent(urlTemplate)
  IN [level |-> url[indexOf(t, "{z}")], x |-> url[indexOf(t, "{x}")],
      y |-> url[indexOf(t, "{y}")]]

\* a tile as a URL names it: decimal, no padding
Named(tile) ==
  [level |-> ToString(tile.level), x |-> ToString(tile.x), y |-> ToString(tile.y)]

\* the ancestor of tile at level m
Ancestor(tile, m) ==
  [level |-> m, x |-> tile.x \div (2 ^ (tile.level - m)),
   y |-> tile.y \div (2 ^ (tile.level - m))]

\* C19: for a display tile of level L above the maximum level M passed to
\* render, the data tile, and the tile the fetched URL names, is the ancestor
\* at level M, and ps is 2^(L-M); for L <= M the data tile, and the tile the
\* URL names, is the display tile, and ps is 1.
C19_Original ==
  built.op = "render" =>
    LET L == requestedTile.level
        M == maximumLevel
        expected == IF L > M THEN Ancestor(requestedTile, M) ELSE requestedTile
    IN /\ built.dataTile = expected
       /\ built.ps = (IF L > M THEN 2 ^ (L - M) ELSE 1)
       /\ NamedIn(built.url) = Named(expected)

\* C20: in a URL built for a tile whose level exceeds the configured
\* maximum, {z} is replaced by that maximum; for a tile whose level does not
\* exceed it, by the tile's own level; in the URLs of render and pickFeatures.
C20_Original ==
  built.op # "none" =>
    NamedIn(built.url).level =
      ToString(IF requestedTile.level > maximumLevel
               THEN maximumLevel ELSE requestedTile.level)

\* the template with its placeholders {z}, {x} and {y} (written with braces
\* or with percent-encoded braces) replaced by the decimal level, x and y of
\* the tile, and nothing else touched
Substituted(template, tile) ==
  [k \in DOMAIN template |->
     CASE template[k] \in {"{z}", "%7Bz%7D"} -> ToString(tile.level)
       [] template[k] \in {"{x}", "%7Bx%7D"} -> ToString(tile.x)
       [] template[k] \in {"{y}", "%7By%7D"} -> ToString(tile.y)
       [] OTHER -> template[k]]

\* C21: for a tile within the zoom range, buildURLWithTileCoordinates returns
\* the template with {z}, {x} and {y} replaced by the unpadded decimal level,
\* x and y of the tile and every other character unchanged.
C21_Original ==
  (built.op # "none" /\ built.dataTile.level <= maximumLevel)
    => built.url = Substituted(urlTemplate, built.dataTile)

\* C22: for every feature drawn, evalStyle is called with the requested tile
\* when that tile is within the source zoom range, and with the source data
\* tile when the requested tile is over-zoomed.
C22_Original ==
  styled # <<>> =>
    styled[1] = dataTileForDisplayTile(requestedTile, maximumLevel).dataTile

\* the features of the k-th requested layer that the hit test accepts, those
\* that onSelectFeature declines left out when accepted says so
HitsOf(k, accepted) ==
  IF pick.tile = <<>> \/ layerNames[k] \notin DOMAIN pick.tile[1]
  THEN {}
  ELSE LET layer == pick.tile[1][layerNames[k]]
       IN {i \in DOMAIN layer :
             /\ layer[i].type = "Polygon"
             /\ layer[i].clicked
             /\ accepted => ~layer[i].declined}

\* every hit with the place of its layer in layerNames
AllHits(accepted) ==
  UNION {{<<k, i>> : i \in HitsOf(k, accepted)} : k \in DOMAIN layerNames}

\* the place in the result of hit i of the k-th layer: after the hits of the
\* layers before it and the hits before it in its layer
PlaceOf(k, i, accepted) ==
  Cardinality({h \in AllHits(accepted) : h[1] < k \/ (h[1] = k /\ h[2] <= i)})

\* the result lists the hits by layer place, then by feature place
InLayerThenFeatureOrder(accepted) ==
  /\ Len(pick.result) = Cardinality(AllHits(accepted))
  /\ \A h \in AllHits(accepted) :
       pick.result[PlaceOf(h[1], h[2], accepted)] = [layer |-> layerNames[h[1]], i |-> h[2]]

\* C23 as stated: a pick that returns lists one entry for every feature
\* whose hit test succeeds, by layer-declaration order and then feature
\* order, without deduplication, whatever order the layer picks arrived in
C23_Original == pick.pc = "done" => InLayerThenFeatureOrder(FALSE)

\* C23: a pick that returns lists one entry for every feature whose hit test
\* succeeds and that onSelectFeature does not decline, by layer-declaration
\* order and then feature order, without deduplication across layers,
\* whatever order the layer picks arrived in; layers the tile does not have
\* add nothing
C23_HitsInLayerThenFeatureOrder == pick.pc = "done" => InLayerThenFeatureOrder(TRUE)

\* two layers with hits each, the second one's pick arriving first, and a
\* declined hit in the tile
C23_Witness ==
  /\ pick.pc = "done"
  /\ pick.order = <<2, 1>>
  /\ layerNames = <<"l2", "l1">>
  /\ HitsOf(1, TRUE) # {}
  /\ HitsOf(2, TRUE) # {}
  /\ HitsOf(2, FALSE) # HitsOf(2, TRUE)
  /\ Len(pick.result) >= 2

\* C24: a pick against a tile whose fetch or decode fails does not reject and
\* resolves to the empty list.
C24_Original ==
  pick.resp \in FailedFetch \cup UndecodableBody =>
    /\ pick.pc # "rejected"
    /\ pick.pc = "done" => pick.result = <<>>

\* C25: a pick creates no pool, enqueues nothing and leaves taskCount as it
\* is, and a pick for a URL that an earlier pick on the same provider fetched
\* and decoded is served from the cache without another fetch or decode.
C25_Original ==
  [][/\ UNCHANGED <<poolVars, taskCount>>
     /\ (pick'.n = pick.n + 1 /\ pick'.url \in picksDecoded) =>
          (pick'.fetches = 0 /\ pick'.pc # "fetching")]_vars

\* the feature of the picked tile an entry of the result stands for
PickedFeature(e) == pick.tile[1][e.layer][e.i]

\* C26: every feature a pick returns is a polygon whose hit test succeeded;
\* no LineString and no Point is returned, whatever pickPointRadius and
\* pickLineWidth are.
C26_OnlyHitPolygons ==
  pick.pc = "done" =>
    \A k \in DOMAIN pick.result :
      /\ pick.tile # <<>>
      /\ pick.result[k].layer \in DOMAIN pick.tile[1]
      /\ pick.result[k].i \in DOMAIN pick.tile[1][pick.result[k].layer]
      /\ PickedFeature(pick.result[k]).type = "Polygon"
      /\ PickedFeature(pick.result[k]).clicked

\* a pick with a radius and a width set, over a line and a point the hit test
\* accepts and a polygon, returned the polygon only
C26_Witness ==
  /\ pick.pc = "done"
  /\ pickOptions.pickPointRadius # <<>>
  /\ pickOptions.pickLineWidth # <<>>
  /\ layerNames = <<"l1", "l2">>
  /\ pick.tile # <<>>
  /\ "l1" \in DOMAIN pick.tile[1]
  /\ Len(pick.tile[1]["l1"]) = 2
  /\ pick.tile[1]["l1"][1].type = "LineString" /\ pick.tile[1]["l1"][1].clicked
  /\ pick.tile[1]["l1"][2].type = "Point" /\ pick.tile[1]["l1"][2].clicked
  /\ pick.result = <<[layer |-> "l2", i |-> 1]>>

\* what a renderTile task with a context does, in order
FullRender == <<"render", "clearCache", "requestFrame", "frame">>

\* C27: every renderTile task that obtained a 2D context does the render,
\* then clearCache, then one wait for an animation frame, and ends only after
\* that frame; so between two renders on the worker a frame has passed and
\* the later one starts with an empty tile cache.
C27_Original ==
  \A k \in DOMAIN renders :
    renders[k].ctx =>
      /\ renders[k].events = SubSeq(FullRender, 1, Len(renders[k].events))
      /\ renders[k].pc \in {"completed", "rejected"} => renders[k].events = FullRender
      /\ renders[k].cached = 0
      /\ \A j \in 1..(k - 1) : renders[j].ctx => "frame" \in Range(renders[j].events)

\* C28: the taskCount of every provider stays between 0 and
\* maximumTasksPerImagery, whatever its worker option is.
C28_Original ==
  \A pv \in DOMAIN providers :
    taskCount[pv] >= 0 /\ taskCount[pv] <= maximumTasksPerImagery

\* C29: no registered pool ever has more than maximumTasks tasks waiting in
\* its queue, whatever the providers using its layer id and their worker
\* options are.
C29_Original ==
  \A p \in Range(workerPools) : Len(pool[p].taskQueue) <= maximumTasks

\* C30: a requestImage call whose current layer differs from layerUsed calls
\* destroy for the id of layerUsed: a pool registered under that id is
\* terminated by the call.
C30_Original ==
  [][\A pv \in DOMAIN providers :
       (/\ RequestImage(pv)
        /\ providers[pv].layer # <<>>
        /\ layerUsed # <<>>
        /\ layerUsed # providers[pv].layer
        /\ find(layerUsed[1].id) # 0)
         => pool'[find(layerUsed[1].id)].isClosing]_vars

\* C31: while no clearCache occurs a URL is decoded at most once and every
\* caller gets the same tile, however the _cachedTile calls for it overlap:
\* no call stores a newly decoded tile under a URL that has a tile stored.
C31_Original ==
  [][\A u \in DOMAIN tileCaches :
       u \in DOMAIN tileCaches' => tileCaches'[u] = tileCaches[u]]_vars

\* a pool was torn down while provider pv had requests in flight on it
TornDown(pv) == \E t \in DOMAIN task : task[t].owner = pv /\ task[t].st = "terminated"

C33_Original ==
  [][/\ \A p \in Range(workerPools) \ Range(workerPools') : pool[p].isClosing
     /\ \A p \in DOMAIN pool :
          (pool'[p].isClosing /\ ~pool[p].isClosing) =>
            (last'.op = "destroy" /\ last'.key = pool[p].layerId)]_vars

\* the admitted requests of provider pv whose render promise has not settled
Outstanding(pv) == {t \in DOMAIN task : task[t].owner = pv /\ task[t].st = "pending"}

\* a step that is a requestImage call returning undefined
ReturnsUndefined == requests' = requests + 1 /\ last'.t = 0

\* C34: taskCount is the number of outstanding admitted requests: a call that
\* enqueues counts up once, its render settling, fulfilled or rejected, counts
\* down once, and a call that returns undefined enqueues nothing and counts
\* nothing up; so taskCount is 0 whenever no admitted request is outstanding.
C34_TaskCountIsOutstanding ==
  /\ [](\A pv \in DOMAIN providers : taskCount[pv] = Cardinality(Outstanding(pv)))
  /\ [][/\ \A t \in DOMAIN task :
            (task[t].st = "pending" /\ task'[t].st = "settled") =>
              taskCount'[task[t].owner] = taskCount[task[t].owner] - 1
        /\ ReturnsUndefined =>
             /\ Len(task') = Len(task)
             /\ DOMAIN pool' = DOMAIN pool
             /\ \A p \in DOMAIN pool :
                  pool'[p].taskQueue = pool[p].taskQueue /\ pool'[p].running = pool[p].running
             /\ \A pv \in DOMAIN providers : taskCount'[pv] <= taskCount[pv]]_vars

\* a provider whose only admitted request was rejected is back at 0, after a
\* call that returned undefined
C34_Witness ==
  /\ last.op = "settled"
  /\ ~last.ok
  /\ taskCount[task[last.t].owner] = 0
  /\ requests > Len(task)

\* the error is an Error whose message starts with "Unimplemented type"
IsUnimplementedType(thrown) ==
  thrown[1].isError /\ thrown[1].message[1] = "Unimplemented type"

\* C38: when a render settles, requestImage resolves with the canvas if the
\* render was fulfilled or was rejected with an Error whose message starts with
\* "Unimplemented type"; after any other rejection it rejects with the same
\* error; in every case taskCount of the provider goes down by one.
C38_OnlyUnimplementedTypeIsSwallowed ==
  [][\A t \in DOMAIN task :
       (task[t].st = "pending" /\ task'[t].st = "settled") =>
         /\ last'.op = "settled" /\ last'.t = t
         /\ last'.ok <=> (last'.thrown = <<>> \/ IsUnimplementedType(last'.thrown))
         /\ ~last'.ok => last'.error = last'.thrown
         /\ taskCount'[task[t].owner] = taskCount[task[t].owner] - 1]_vars

\* a render rejected with Error("Unimplemented type: 4") resolved with the canvas
C38_Witness ==
  /\ last.op = "settled"
  /\ last.thrown # <<>>
  /\ IsUnimplementedType(last.thrown)
  /\ last.ok
  /\ taskCount[task[last.t].owner] = 0

\* C36 as stated: the paint in effect when a feature is drawn is that of the
\* feature's own style, with black, black, 1 (and the context's initial join)
\* for the attributes the style omits, whatever was drawn before it in the
\* layer.
C36_Original ==
  [][(index' = index + 1 /\ ~feature'.culled /\ feature'.style # <<>>) =>
       LET style == feature'.style[1]
       IN /\ context'.fillStyle = orElse(style.fillStyle, LayerPaint.fillStyle)
          /\ context'.strokeStyle = orElse(style.strokeStyle, LayerPaint.strokeStyle)
          /\ orElse(style.lineWidth, LayerPaint.lineWidth) > 0 =>
               context'.lineWidth = orElse(style.lineWidth, LayerPaint.lineWidth)
          /\ context'.lineJoin = orElse(style.lineJoin, LayerPaint.lineJoin)]_vars

\* the calls of kind op made on the context in render r
CallsIn(op, r) == {k \in DOMAIN calls : calls[k].op = op /\ calls[k].r = r}

\* every _renderCanvas of render r has drawn
RenderCompleted(r) ==
  /\ \E c \in DOMAIN call : call[c].r = r
  /\ \A c \in DOMAIN call : call[c].r = r => call[c].pc = "done"

\* C35 as stated: within one render, no feature of a later entry of the layer
\* names is drawn before a feature of an earlier entry, whatever the order
\* the tile lookups are answered in.
C35_Original ==
  \A k, m \in DOMAIN calls :
    (k < m /\ calls[k].r = calls[m].r /\ calls[k].op = "feature" /\ calls[m].op = "feature")
      => calls[k].at <= calls[m].at

\* C37 as stated: a render that has completed has called restore() as often
\* as save().
C37_Original ==
  \A r \in 1..MaxPasses :
    RenderCompleted(r) =>
      Cardinality(CallsIn("save", r)) = Cardinality(CallsIn("restore", r))


====
